---- MODULE Spec2Model ----
(***************************************************************************)
(* A model of chem_route_extractor.py: the text-mining extractor, the      *)
(* reaction normalizer, the image stage, the document assembler, the       *)
(* per-file orchestrator (process_pdf) and the batch orchestrator (main).  *)
(*                                                                         *)
(* Strings whose content the code inspects (compound identifiers, page     *)
(* text, experimental text) are sequences of one-character strings; the    *)
(* other strings (messages, structure identifiers) are plain strings.      *)
(***************************************************************************)
EXTENDS Integers, Sequences, FiniteSets, TLC

VARIABLES
    \* ---- text-mining extractor (extract_text_info) ----
    tm_pdf,        \* the PDF handed to the extractor
    tm_max_pages,  \* its page budget (args.max_pages)
    tm_pc,         \* "input" | "once" | "twice" ("idle": not part of the run)
    tm_out1,       \* the ExtractedTextInfo of the first run
    tm_out2,       \* the ExtractedTextInfo of the second run on the same input
    \* ---- reaction normalizer (extract_reactions_with_openchemie) ----
    rn_figures,    \* figure_results, as the recognition model lists them
    rn_pc,         \* "model" | "extracted" | "failed"
    rn_reactions,  \* the list returned
    \* ---- image stage (generate_reaction_images) ----
    im_in,         \* the ReactionRecords handed to the stage
    im_fails,      \* for each record, where the rendering collaborator fails
    im_pc,         \* "input" | "returned" | "unchanged" (no RDKit) | "raised"
    im_out,        \* the list returned
    im_files,      \* the image files saved
    \* ---- document assembler (create_word_document) ----
    dc_pdf_info,   \* pdf_info: its experimental_text
    dc_language,   \* the language selector: "en" | "zh" | "both"
    dc_pc,         \* "input" | "saved" (returned True) | "no_docx" (returned False)
    dc_doc,        \* the paragraphs of the source-language section of the document
    \* ---- experimental-section cascade (extract_text_info) ----
    ex_all_text,   \* all_text, the text of the pages read
    ex_pc,         \* "input" | "done"
    ex_out,        \* the experimental text found, and how it was looked for
    \* ---- batch orchestrator (main) ----
    args,          \* the parsed arguments: no_images, max_pages
    config,        \* the loaded configuration: save_raw_data
    pc,            \* "start" | "loop" | "summary" | "exit" | "crashed"
    pdf_files,     \* the inputs find_pdf_files returned
    results,       \* the list of ProcessResults
    report,        \* the results of processing_report.json, None before it is written
    report_writes, \* how many times the report was written
    status,        \* the completion status of the run, NoStatus while it runs
    calls,         \* how many times process_pdf was called
    stage_log,     \* for each ProcessResult of results, the stages its file went through
    \* ---- per-file orchestrator (process_pdf) ----
    pp_pc,         \* "idle" | "text" | "reactions" | "images" | "document" | "raw" | "return"
    pp_stages,     \* the stages attempted for the current file, in order, each with
                   \* how it ended: "done", "caught" (the stage caught its own
                   \* exception) or "escaped" (the exception left the stage)
    pp_result,     \* the ProcessResult being built
    pp_text_info,  \* the ExtractedTextInfo of the current file
    pp_reactions   \* the ReactionRecords of the current file

tmVars == <<tm_pdf, tm_max_pages, tm_pc, tm_out1, tm_out2>>
rnVars == <<rn_figures, rn_pc, rn_reactions>>
imVars == <<im_in, im_fails, im_pc, im_out, im_files>>
dcVars == <<dc_pdf_info, dc_language, dc_pc, dc_doc>>
exVars == <<ex_all_text, ex_pc, ex_out>>
mainVars == <<args, config, pc, pdf_files, results, report, report_writes, status,
             calls, stage_log>>
ppVars == <<pp_pc, pp_stages, pp_result, pp_text_info, pp_reactions>>
vars == <<tmVars, rnVars, imVars, dcVars, exVars, mainVars, ppVars>>

None == "None"

Min(a, b) == IF a <= b THEN a ELSE b

(***************************************************************************)
(* Character strings.                                                      *)
(***************************************************************************)
Digits == {"0", "1", "2", "3", "4", "5", "6", "7", "8", "9"}
Letters == {"A", "B", "C", "D"}
NL == "\n"
SP == " "

\* the code point of a character, as Python compares str values
Ord(c) ==
    CASE c = NL -> 10
      [] c = SP -> 32
      [] c = "." -> 46
      [] c = "0" -> 48 [] c = "1" -> 49 [] c = "2" -> 50 [] c = "3" -> 51
      [] c = "4" -> 52 [] c = "5" -> 53 [] c = "6" -> 54 [] c = "7" -> 55
      [] c = "8" -> 56 [] c = "9" -> 57
      [] c = "A" -> 65 [] c = "B" -> 66 [] c = "C" -> 67 [] c = "D" -> 68

\* str.isnumeric() / str.isdigit(): non-empty and every character a digit
isnumeric(s) == Len(s) > 0 /\ \A i \in 1..Len(s) : s[i] \in Digits
isdigit(s) == isnumeric(s)

\* a < b for two str values: lexicographic by code point
RECURSIVE StrLess(_, _)
StrLess(a, b) ==
    IF b = <<>> THEN FALSE
    ELSE IF a = <<>> THEN TRUE
    ELSE IF a[1] # b[1] THEN Ord(a[1]) < Ord(b[1])
    ELSE StrLess(Tail(a), Tail(b))

(***************************************************************************)
(* Text-mining extractor: extract_text_info.                               *)
(*                                                                         *)
(* A page is None (page.extract_text() gives no text), Broken (reading it  *)
(* raises) or the sequence of identifier mentions the compound patterns    *)
(* find in it, in the order of occurrence; its text is the mentions        *)
(* separated by blanks.  The ExtractedTextInfo modelled here holds the     *)
(* compounds, the compound descriptions and the page counts; the search    *)
(* for the experimental text is modelled further down, over all_text.      *)
(***************************************************************************)
Broken == "Broken"

DescLimit == 5
DescChars == 200

RECURSIVE JoinBlank(_)
JoinBlank(ms) ==
    IF ms = <<>> THEN <<>>
    ELSE IF Len(ms) = 1 THEN ms[1]
    ELSE ms[1] \o <<SP>> \o JoinBlank(Tail(ms))

PageText(page) == IF page = None THEN <<>> ELSE JoinBlank(page)

\* a slip: every page is read, whatever the budget
PagesToProcess_NoBudget(pdf, max_pages) == Len(pdf.pages)

\* pages_to_process = min(max_pages, total_pages)
PagesToProcess(pdf, max_pages) == Min(max_pages, Len(pdf.pages))

\* an exception inside the try block: the file cannot be opened, or a page
\* that is read cannot be
TextRaises(pdf, max_pages) ==
    \/ ~pdf.openable
    \/ \E i \in 1..PagesToProcess(pdf, max_pages) : pdf.pages[i] = Broken

\* all_text: the text of the processed pages, each followed by a blank line
RECURSIVE AllText(_, _)
AllText(pages, n) ==
    IF n <= 0 THEN <<>>
    ELSE AllText(pages, n - 1) \o
         (IF PageText(pages[n]) # <<>> THEN PageText(pages[n]) \o <<NL, NL>> ELSE <<>>)

\* re.findall of the compound patterns over all_text
RECURSIVE FindAll(_, _)
FindAll(pages, n) ==
    IF n <= 0 THEN <<>>
    ELSE FindAll(pages, n - 1) \o (IF pages[n] = None THEN <<>> ELSE pages[n])

\* compounds: the matches kept by  len(match) > 1 or match.isdigit()
Compounds(matches) ==
    {matches[i] : i \in {k \in 1..Len(matches) :
                            Len(matches[k]) > 1 \/ isdigit(matches[k])}}

\* key=lambda x: (str(x).isnumeric(), str(x)), compared as Python tuples
KeyLess(a, b) ==
    \/ ~isnumeric(a) /\ isnumeric(b)
    \/ isnumeric(a) = isnumeric(b) /\ StrLess(a, b)

\* sorted(compounds, key=...)
RECURSIVE sorted(_)
sorted(S) ==
    IF S = {} THEN <<>>
    ELSE LET m == CHOOSE x \in S : \A y \in S \ {x} : KeyLess(x, y)
         IN  <<m>> \o sorted(S \ {m})

\* list(compounds)[:5]: the first five of a set in its iteration order, which
\* the language leaves open: any five of them
FirstFive(compounds) ==
    IF Cardinality(compounds) <= DescLimit THEN {compounds}
    ELSE {S \in SUBSET compounds : Cardinality(S) = DescLimit}

Occurs(sub, text, i) ==
    /\ i + Len(sub) - 1 <= Len(text)
    /\ SubSeq(text, i, i + Len(sub) - 1) = sub

\* the lookahead (?=\n\n|\n[A-Z]|\.\s) at position j
Lookahead(text, j) ==
    /\ j + 1 <= Len(text)
    /\ \/ text[j] = NL /\ text[j + 1] = NL
       \/ text[j] = NL /\ text[j + 1] \in Letters
       \/ text[j] = "." /\ text[j + 1] \in {SP, NL}

MatchStarts(c, text) ==
    {i \in 1..Len(text) :
        /\ Occurs(c, text, i)
        /\ \E j \in (i + Len(c))..Len(text) : Lookahead(text, j)}

SetMin(S) == CHOOSE x \in S : \A y \in S : x <= y

\* match.group(0)[:200] of  re.search(escape(compound) + '.*?(?=...)', all_text)
Desc(c, text) ==
    LET i == SetMin(MatchStarts(c, text))
        j == SetMin({k \in (i + Len(c))..Len(text) : Lookahead(text, k)})
        g == SubSeq(text, i, j - 1)
    IN  SubSeq(g, 1, Min(DescChars, Len(g)))

\* compound_desc, as the set of its (key, value) pairs
CompoundDesc(first5, text) ==
    {<<c, Desc(c, text)>> : c \in {d \in first5 : MatchStarts(d, text) # {}}}

\* the dictionary returned when an exception is caught
DefaultTextInfo ==
    [compounds |-> <<>>, compound_descriptions |-> {},
     total_pages |-> 0, pages_processed |-> 0, error |-> TRUE]

\* first5 is the outcome of list(compounds)[:5]
extract_text_info(pdf, max_pages, first5) ==
    IF TextRaises(pdf, max_pages) THEN DefaultTextInfo
    ELSE LET n == PagesToProcess(pdf, max_pages)
             compounds == Compounds(FindAll(pdf.pages, n))
         IN  [compounds |-> sorted(compounds),
              compound_descriptions |-> CompoundDesc(first5, AllText(pdf.pages, n)),
              total_pages |-> Len(pdf.pages),
              pages_processed |-> n,
              error |-> FALSE]

\* the identifier set the extractor builds from a PDF (empty when it raises)
CompoundSet(pdf, max_pages) ==
    IF TextRaises(pdf, max_pages) THEN {}
    ELSE Compounds(FindAll(pdf.pages, PagesToProcess(pdf, max_pages)))

(***************************************************************************)
(* Inputs of the text-mining specification.                                *)
(***************************************************************************)
MaxPdfPages == 2
MaxBudget == 2

PgClaim == <<(<<"1", "2">>), (<<"A", "1">>), (<<"3">>)>>
PgMore == <<(<<"A">>), (<<"7">>), (<<"B", "2">>), (<<"1", "2">>), (<<"C", "3">>), (<<"1", "0">>)>>
PageSamples == {None, Broken, PgClaim, PgMore}

SeqsUpTo(S, n) == UNION {[1..k -> S] : k \in 0..n}

Pdfs == [openable : BOOLEAN, pages : SeqsUpTo(PageSamples, MaxPdfPages)]
\* --max-pages is any int
Budgets == (-1)..MaxBudget

NoInfo == [compounds |-> <<>>, compound_descriptions |-> {},
           total_pages |-> -1, pages_processed |-> -1, error |-> FALSE]

TmIdle ==
    /\ tm_pdf = [openable |-> FALSE, pages |-> <<>>]
    /\ tm_max_pages = 0
    /\ tm_pc = "idle"
    /\ tm_out1 = NoInfo
    /\ tm_out2 = NoInfo

TmStart ==
    /\ tm_pdf \in Pdfs
    /\ tm_max_pages \in Budgets
    /\ tm_pc = "input"
    /\ tm_out1 = NoInfo
    /\ tm_out2 = NoInfo

TmRunOnce ==
    /\ tm_pc = "input"
    /\ \E first5 \in FirstFive(CompoundSet(tm_pdf, tm_max_pages)) :
          tm_out1' = extract_text_info(tm_pdf, tm_max_pages, first5)
    /\ tm_pc' = "once"
    /\ UNCHANGED <<tm_pdf, tm_max_pages, tm_out2, rnVars, imVars, mainVars, ppVars,
                   dcVars, exVars>>

TmRunAgain ==
    /\ tm_pc = "once"
    /\ \E first5 \in FirstFive(CompoundSet(tm_pdf, tm_max_pages)) :
          tm_out2' = extract_text_info(tm_pdf, tm_max_pages, first5)
    /\ tm_pc' = "twice"
    /\ UNCHANGED <<tm_pdf, tm_max_pages, tm_out1, rnVars, imVars, mainVars, ppVars,
                   dcVars, exVars>>

TmNext == TmRunOnce \/ TmRunAgain

(***************************************************************************)
(* Reaction normalizer: extract_reactions_with_openchemie.                 *)
(*                                                                         *)
(* A candidate species is its 'smiles' value, None when it has none.  A    *)
(* raw entry holds its 'reactants' and 'products' lists, None for a key    *)
(* that is absent; a figure holds its 'page' (NoPage when absent) and its  *)
(* 'reactions' list.                                                       *)
(***************************************************************************)
NoPage == -1

\* a slip: only a missing 'smiles' is skipped, an empty one is taken
Truthy_NotNone(s) == s # None

\* the truth value of a 'smiles' value
Truthy(s) == s # None /\ s # ""

\* for c in candidates: if 'smiles' in c and c['smiles']: ...; break
RECURSIVE FirstSmiles(_)
FirstSmiles(cands) ==
    IF cands = None \/ cands = <<>> THEN None
    ELSE IF Truthy(cands[1]) THEN cands[1]
    ELSE FirstSmiles(Tail(cands))

\* the body of the loop over fig_reactions, for one raw entry
NormalizeEntry(rxn, page, reactions) ==
    LET reactant_smiles == FirstSmiles(rxn.reactants)
        product_smiles == FirstSmiles(rxn.products)
    IN  IF reactant_smiles # None /\ product_smiles # None
        THEN Append(reactions,
                    [reaction_id |-> Len(reactions) + 1,
                     page |-> page + 1,
                     reactant_smiles |-> reactant_smiles,
                     product_smiles |-> product_smiles,
                     raw_data |-> rxn])
        ELSE reactions

RECURSIVE NormalizeEntries(_, _, _)
NormalizeEntries(fig_reactions, page, reactions) ==
    IF fig_reactions = <<>> THEN reactions
    ELSE NormalizeEntries(Tail(fig_reactions), page,
                          NormalizeEntry(fig_reactions[1], page, reactions))

\* the loop over enumerate(figure_results), from figure fig_idx (0-based) on
RECURSIVE NormalizeFigures(_, _, _)
NormalizeFigures(figure_results, fig_idx, reactions) ==
    IF fig_idx >= Len(figure_results) THEN reactions
    ELSE LET fig_result == figure_results[fig_idx + 1]
             page == IF fig_result.page = NoPage THEN fig_idx ELSE fig_result.page
         IN  NormalizeFigures(figure_results, fig_idx + 1,
                              NormalizeEntries(fig_result.reactions, page, reactions))

\* the value returned: the normalized list, or [] when anything raised
extract_reactions_with_openchemie(raised, figure_results) ==
    IF raised THEN <<>> ELSE NormalizeFigures(figure_results, 0, <<>>)

(***************************************************************************)
(* The normalizer's specification: the recognition model lists figures and *)
(* their entries, then the function runs.                                  *)
(***************************************************************************)
MaxFigs == 2
MaxRawEntries == 3

ReactantLists == {None, <<"">>, <<"", "CCO">>, <<"CC", "CCO">>}
ProductLists == {<<>>, <<None, "CC=O">>}
RawEntries == [reactants : ReactantLists, products : ProductLists]
FigPages == {NoPage, 4}

RECURSIVE Flat(_)
Flat(figs) ==
    IF figs = <<>> THEN <<>> ELSE figs[1].reactions \o Flat(Tail(figs))

RnIdle ==
    /\ rn_figures = <<>>
    /\ rn_pc = "idle"
    /\ rn_reactions = <<>>

RnStart ==
    /\ rn_figures = <<>>
    /\ rn_pc = "model"
    /\ rn_reactions = <<>>

RnModelFigure ==
    /\ rn_pc = "model"
    /\ Len(rn_figures) < MaxFigs
    /\ \E p \in FigPages :
          rn_figures' = Append(rn_figures, [page |-> p, reactions |-> <<>>])
    /\ UNCHANGED <<rn_pc, rn_reactions, tmVars, imVars, mainVars, ppVars, dcVars,
                   exVars>>

RnModelEntry ==
    /\ rn_pc = "model"
    /\ rn_figures # <<>>
    /\ Len(Flat(rn_figures)) < MaxRawEntries
    /\ \E e \in RawEntries :
          rn_figures' =
              [rn_figures EXCEPT ![Len(rn_figures)].reactions = Append(@, e)]
    /\ UNCHANGED <<rn_pc, rn_reactions, tmVars, imVars, mainVars, ppVars, dcVars,
                   exVars>>

RnExtract ==
    /\ rn_pc = "model"
    /\ rn_reactions' = extract_reactions_with_openchemie(FALSE, rn_figures)
    /\ rn_pc' = "extracted"
    /\ UNCHANGED <<rn_figures, tmVars, imVars, mainVars, ppVars, dcVars, exVars>>

\* torch, the model or its call raises: the except branch returns []
RnFail ==
    /\ rn_pc = "model"
    /\ rn_reactions' = extract_reactions_with_openchemie(TRUE, rn_figures)
    /\ rn_pc' = "failed"
    /\ UNCHANGED <<rn_figures, tmVars, imVars, mainVars, ppVars, dcVars, exVars>>

RnNext == RnModelFigure \/ RnModelEntry \/ RnExtract \/ RnFail

(***************************************************************************)
(* Image stage: generate_reaction_images.                                  *)
(*                                                                         *)
(* A ReactionRecord is a dictionary: a record whose optional keys          *)
(* (reactant_image, product_image, images_generated) are in its domain     *)
(* once they are set.  The rendering collaborator parses the structure     *)
(* identifiers of ValidSmiles and no other; for each record it may fail at *)
(* one point, or at none ("ok").                                           *)
(***************************************************************************)
ValidSmiles == {"CCO", "CC", "CC=O"}

FailPoints ==
    {"ok", "parse", "reactant_draw", "reactant_save", "product_draw", "product_save"}

\* d[k] = v
SetKey(d, k, v) == (k :> v) @@ d
\* d.get(k, default)
Get(d, k, default) == IF k \in DOMAIN d THEN d[k] ELSE default

\* Chem.MolFromSmiles:  a molecule, or None for an identifier that does not parse
MolFromSmiles(smiles) == IF smiles \in ValidSmiles THEN <<"mol", smiles>> ELSE None

ImagePath(reaction_num, which) == <<"reaction_images", reaction_num, which>>

\* the files one record's rendering saves before it ends or fails at `fail`
SavedBy(reaction, fail) ==
    IF \/ fail = "parse"
       \/ MolFromSmiles(reaction.reactant_smiles) = None
       \/ MolFromSmiles(reaction.product_smiles) = None
       \/ fail \in {"reactant_draw", "reactant_save"}
    THEN {}
    ELSE IF fail \in {"product_draw", "product_save"}
    THEN {ImagePath(reaction.reaction_id, "reactant")}
    ELSE {ImagePath(reaction.reaction_id, "reactant"),
          ImagePath(reaction.reaction_id, "product")}

\* the body of the loop over reactions, for one record: the try block and
\* its except branch
RenderRecord(reaction, fail) ==
    IF fail = "parse" THEN SetKey(reaction, "images_generated", FALSE)
    ELSE IF MolFromSmiles(reaction.reactant_smiles) # None
            /\ MolFromSmiles(reaction.product_smiles) # None
    THEN IF fail = "ok"
         THEN SetKey(SetKey(SetKey(reaction,
                  "reactant_image", ImagePath(reaction.reaction_id, "reactant")),
                  "product_image", ImagePath(reaction.reaction_id, "product")),
                  "images_generated", TRUE)
         ELSE SetKey(reaction, "images_generated", FALSE)
    ELSE SetKey(reaction, "images_generated", FALSE)

\* a slip: the first exception ends the loop, the records after it are left
\* as they were
RenderAll_StopAtFailure(reactions, fails) ==
    [i \in 1..Len(reactions) |->
        IF \E j \in 1..(i - 1) : fails[j] # "ok"
        THEN reactions[i]
        ELSE RenderRecord(reactions[i], fails[i])]

\* for i, reaction in enumerate(reactions): every record, whatever happened
\* to the ones before it
RenderAll(reactions, fails) ==
    [i \in 1..Len(reactions) |-> RenderRecord(reactions[i], fails[i])]

SavedAll(reactions, fails) ==
    UNION {SavedBy(reactions[i], fails[i]) : i \in 1..Len(reactions)}

\* generate_reaction_images: without RDKit the list is returned as it is;
\* when images_dir.mkdir raises, the exception leaves the function
generate_reaction_images(reactions, rdkit, mkdir_ok, fails) ==
    IF ~rdkit
    THEN [raised |-> FALSE, reactions |-> reactions, files |-> {}]
    ELSE IF ~mkdir_ok
    THEN [raised |-> TRUE, reactions |-> reactions, files |-> {}]
    ELSE [raised |-> FALSE,
          reactions |-> RenderAll(reactions, fails),
          files |-> SavedAll(reactions, fails)]

(***************************************************************************)
(* The image stage's specification: a list of ReactionRecords is made,     *)
(* with the collaborator's behaviour on each, then the stage runs.         *)
(***************************************************************************)
MaxRecords == 3

RecordSmiles == {"CCO", "C(("}

ImIdle ==
    /\ im_in = <<>>
    /\ im_fails = <<>>
    /\ im_pc = "idle"
    /\ im_out = <<>>
    /\ im_files = {}

ImStart ==
    /\ im_in = <<>>
    /\ im_fails = <<>>
    /\ im_pc = "input"
    /\ im_out = <<>>
    /\ im_files = {}

ImRecord ==
    /\ im_pc = "input"
    /\ Len(im_in) < MaxRecords
    /\ \E r \in RecordSmiles, p \in RecordSmiles, f \in FailPoints :
          /\ im_in' = Append(im_in,
                 [reaction_id |-> Len(im_in) + 1, page |-> 1,
                  reactant_smiles |-> r, product_smiles |-> p,
                  raw_data |-> None])
          /\ im_fails' = Append(im_fails, f)
    /\ UNCHANGED <<im_pc, im_out, im_files, tmVars, rnVars, mainVars, ppVars, dcVars,
                   exVars>>

ImRun(rdkit, mkdir_ok) ==
    LET res == generate_reaction_images(im_in, rdkit, mkdir_ok, im_fails)
    IN  /\ im_pc = "input"
        /\ im_pc' = IF res.raised THEN "raised"
                    ELSE IF rdkit THEN "returned" ELSE "unchanged"
        /\ im_out' = IF res.raised THEN <<>> ELSE res.reactions
        /\ im_files' = res.files
        /\ UNCHANGED <<im_in, im_fails, tmVars, rnVars, mainVars, ppVars, dcVars, exVars>>

ImNoRdkit == \E m \in BOOLEAN : ImRun(FALSE, m)
ImMkdirRaises == ImRun(TRUE, FALSE)
ImRender == ImRun(TRUE, TRUE)

ImNext == ImRecord \/ ImNoRdkit \/ ImMkdirRaises \/ ImRender

(***************************************************************************)
(* Document assembler: create_word_document, the source-language section.  *)
(*                                                                         *)
(* The experimental text is a sequence of characters.  The section is the  *)
(* sequence of the texts of the paragraphs added after the section's       *)
(* heading; the emphasis given to a paragraph does not change its text.    *)
(* The phrase of the truncation marker and the placeholder of an absent    *)
(* text each stand as one character.                                       *)
(***************************************************************************)
TruncLimit == 5000

\* "\n\n...（内容过长，已截断）"
TruncationMarker == <<NL, NL, ".", ".", ".", "(content too long, truncated)">>
\* "（实验部分未提取到）"
NotExtracted == <<"(experimental section not extracted)">>

Whitespace == {SP, NL}

\* the least position >= from of a line break of text, 0 when there is none
NextBreak(text, from) ==
    LET brk == {i \in from..Len(text) : text[i] = NL}
    IN  IF brk = {} THEN 0 ELSE SetMin(brk)

\* text.split('\n'), from position `from` on
RECURSIVE SplitFrom(_, _)
SplitFrom(text, from) ==
    LET b == NextBreak(text, from)
    IN  IF b = 0 THEN <<SubSeq(text, from, Len(text))>>
        ELSE <<SubSeq(text, from, b - 1)>> \o SplitFrom(text, b + 1)

split(text) == SplitFrom(text, 1)

\* the truth value of line.strip()
StripTruthy(line) == \E i \in 1..Len(line) : line[i] \notin Whitespace

\* for line in lines: if line.strip(): one paragraph holding the line
RECURSIVE Paragraphs(_)
Paragraphs(lines) ==
    IF lines = <<>> THEN <<>>
    ELSE (IF StripTruthy(lines[1]) THEN <<lines[1]>> ELSE <<>>)
         \o Paragraphs(Tail(lines))

\* a slip: a text of exactly the ceiling is cut as well
Truncate_AtCeiling(exp_text) ==
    IF Len(exp_text) >= TruncLimit
    THEN SubSeq(exp_text, 1, TruncLimit) \o TruncationMarker
    ELSE exp_text

\* if len(exp_text) > 5000: exp_text = exp_text[:5000] + marker
Truncate(exp_text) ==
    IF Len(exp_text) > TruncLimit
    THEN SubSeq(exp_text, 1, TruncLimit) \o TruncationMarker
    ELSE exp_text

\* the paragraphs added under the heading of the source-language section
SourceSection(pdf_info, language) ==
    IF language \in {"en", "both"}
    THEN IF pdf_info.experimental_text # <<>>
         THEN Paragraphs(split(Truncate(pdf_info.experimental_text)))
         ELSE <<NotExtracted>>
    ELSE <<>>

\* create_word_document: False without python-docx, else the document is
\* built and saved
create_word_document(pdf_info, language, docx) ==
    IF ~docx THEN [saved |-> FALSE, source |-> <<>>]
    ELSE [saved |-> TRUE, source |-> SourceSection(pdf_info, language)]

(***************************************************************************)
(* The document assembler's specification: an experimental text is put     *)
(* together from a few pieces, then the document is assembled.             *)
(***************************************************************************)
MaxPieces == 3

Rep(ch, n) == [i \in 1..n |-> ch]

TextPieces ==
    {<<"a">>, <<SP>>, <<NL>>, Rep("b", TruncLimit - 1), Rep("c", TruncLimit \div 2)}

RECURSIVE Concat(_)
Concat(pieces) ==
    IF pieces = <<>> THEN <<>> ELSE pieces[1] \o Concat(Tail(pieces))

Languages == {"en", "zh", "both"}

DcIdle ==
    /\ dc_pdf_info = [experimental_text |-> <<>>]
    /\ dc_language = "both"
    /\ dc_pc = "idle"
    /\ dc_doc = <<>>

DcStart ==
    /\ dc_pdf_info \in
          {[experimental_text |-> Concat(ps)] : ps \in SeqsUpTo(TextPieces, MaxPieces)}
    /\ dc_language \in Languages
    /\ dc_pc = "input"
    /\ dc_doc = <<>>

DcRun(docx) ==
    LET res == create_word_document(dc_pdf_info, dc_language, docx)
    IN  /\ dc_pc = "input"
        /\ dc_pc' = IF res.saved THEN "saved" ELSE "no_docx"
        /\ dc_doc' = res.source
        /\ UNCHANGED <<dc_pdf_info, dc_language, tmVars, rnVars, imVars, mainVars, ppVars,
                   exVars>>

DcAssemble == DcRun(TRUE)
DcNoDocx == DcRun(FALSE)

DcNext == DcAssemble \/ DcNoDocx

(***************************************************************************)
(* Text-mining extractor: the experimental-section cascade of              *)
(* extract_text_info.  all_text is a sequence of characters; the patterns  *)
(* are searched with re.DOTALL | re.IGNORECASE, so the words of a pattern  *)
(* are written in lower case and compared with the text in lower case.     *)
(***************************************************************************)
UpperCase ==
    <<"A", "B", "C", "D", "E", "F", "G", "H", "I", "J", "K", "L", "M",
      "N", "O", "P", "Q", "R", "S", "T", "U", "V", "W", "X", "Y", "Z">>
LowerCase ==
    <<"a", "b", "c", "d", "e", "f", "g", "h", "i", "j", "k", "l", "m",
      "n", "o", "p", "q", "r", "s", "t", "u", "v", "w", "x", "y", "z">>

\* str.lower() of one character
lower(ch) ==
    IF \E k \in 1..Len(UpperCase) : UpperCase[k] = ch
    THEN LowerCase[CHOOSE k \in 1..Len(UpperCase) : UpperCase[k] = ch]
    ELSE ch

LowerText(text) == [i \in 1..Len(text) |-> lower(text[i])]

\* [A-Z] under re.IGNORECASE: a letter of either case
IsLetter(ch) == \E k \in 1..Len(LowerCase) : LowerCase[k] = lower(ch)

experimental == <<"e", "x", "p", "e", "r", "i", "m", "e", "n", "t", "a", "l">>
materials_and_methods ==
    <<"m", "a", "t", "e", "r", "i", "a", "l", "s", SP, "a", "n", "d", SP,
      "m", "e", "t", "h", "o", "d", "s">>
methods == <<"m", "e", "t", "h", "o", "d", "s">>
synthesis == <<"s", "y", "n", "t", "h", "e", "s", "i", "s">>
preparation == <<"p", "r", "e", "p", "a", "r", "a", "t", "i", "o", "n">>
general_procedures ==
    <<"g", "e", "n", "e", "r", "a", "l", SP, "p", "r", "o", "c", "e", "d",
      "u", "r", "e", "s">>
synthesized == <<"s", "y", "n", "t", "h", "e", "s", "i", "z", "e", "d">>
prepared == <<"p", "r", "e", "p", "a", "r", "e", "d">>
compound == <<"c", "o", "m", "p", "o", "u", "n", "d">>
reaction == <<"r", "e", "a", "c", "t", "i", "o", "n">>
procedure == <<"p", "r", "o", "c", "e", "d", "u", "r", "e">>
method == <<"m", "e", "t", "h", "o", "d">>

\* exp_patterns: the alternatives of each heading pattern, in the order of
\* the list (the alternatives that differ in case only are one)
exp_patterns ==
    <<(<<experimental, materials_and_methods, methods>>),
      (<<synthesis, preparation>>),
      (<<general_procedures>>)>>

\* (synthesized|prepared|compound|reaction|procedure|method|synthesis)
synth_keywords ==
    <<synthesized, prepared, compound, reaction, procedure, method, synthesis>>

FallbackCap == 50

\* the alternatives `alts` that match at position i of the lower-case text
AltsAt(alts, low, i) == {h \in 1..Len(alts) : Occurs(alts[h], low, i)}

\* the positions where one of the alternatives of a pattern matches
HeadingStarts(alts, low) == {i \in 1..Len(low) : AltsAt(alts, low, i) # {}}

\* the lookahead (?=\n\n[A-Z]|$) before position j; without re.MULTILINE
\* the $ holds at the end of the text and before a last line break
Ahead(text, j) ==
    \/ /\ j + 2 <= Len(text)
       /\ text[j] = NL /\ text[j + 1] = NL /\ IsLetter(text[j + 2])
    \/ j = Len(text) + 1
    \/ j = Len(text) /\ text[j] = NL

\* str.strip()
strip(s) ==
    LET keep == {i \in 1..Len(s) : s[i] \notin Whitespace}
    IN  IF keep = {} THEN <<>>
        ELSE SubSeq(s, SetMin(keep), CHOOSE x \in keep : \A y \in keep : y <= x)

\* whether re.search(exp_patterns[p], all_text, ...) finds a match
Matches(p, all_text) == HeadingStarts(exp_patterns[p], LowerText(all_text)) # {}

\* match.group(1) of that match: from the end of the leftmost heading to the
\* first position where the lookahead holds
Group1(p, all_text) ==
    LET low == LowerText(all_text)
        i == SetMin(HeadingStarts(exp_patterns[p], low))
        h == SetMin(AltsAt(exp_patterns[p], low, i))
        e == i + Len(exp_patterns[p][h])
        j == SetMin({k \in e..(Len(all_text) + 1) : Ahead(all_text, k)})
    IN  SubSeq(all_text, e, j - 1)

\* for pattern in exp_patterns: ... break, from pattern p on; `tried` lists
\* the patterns searched
RECURSIVE TryPatterns(_, _)
TryPatterns(p, all_text) ==
    IF p > Len(exp_patterns) THEN [experimental_text |-> <<>>, tried |-> <<>>]
    ELSE IF Matches(p, all_text)
    THEN [experimental_text |-> strip(Group1(p, all_text)), tried |-> <<p>>]
    ELSE LET rest == TryPatterns(p + 1, all_text)
         IN  [rest EXCEPT !.tried = <<p>> \o @]

\* re.search of the keywords in one line
HasKeyword(line) ==
    LET low == LowerText(line)
    IN  \E k \in 1..Len(synth_keywords) :
            \E i \in 1..Len(low) : Occurs(synth_keywords[k], low, i)

\* synth_lines: the lines with a keyword, stripped, in the order of the text
RECURSIVE SynthLines(_)
SynthLines(lines) ==
    IF lines = <<>> THEN <<>>
    ELSE (IF HasKeyword(lines[1]) THEN <<strip(lines[1])>> ELSE <<>>)
         \o SynthLines(Tail(lines))

\* '\n'.join(lines)
RECURSIVE join(_)
join(lines) ==
    IF lines = <<>> THEN <<>>
    ELSE IF Len(lines) = 1 THEN lines[1]
    ELSE lines[1] \o <<NL>> \o join(Tail(lines))

\* the experimental text found in all_text, with the patterns searched and
\* whether the line-by-line search ran
ExperimentalText(all_text) ==
    LET found == TryPatterns(1, all_text)
    IN  IF found.experimental_text = <<>>
        THEN LET synth_lines == SynthLines(split(all_text))
             IN  [experimental_text |->
                      IF synth_lines # <<>>
                      THEN join(SubSeq(synth_lines, 1,
                                       Min(FallbackCap, Len(synth_lines))))
                      ELSE <<>>,
                  tried |-> found.tried,
                  fallback |-> TRUE]
        ELSE [experimental_text |-> found.experimental_text,
              tried |-> found.tried,
              fallback |-> FALSE]

(***************************************************************************)
(* The cascade's specification: the text of the pages is put together from *)
(* a few pieces, each page's text followed by a blank line as the reading  *)
(* loop leaves it, then the experimental text is looked for.               *)
(***************************************************************************)
MaxCorpusPieces == 4

WExperimental == <<"E", "x", "p", "e", "r", "i", "m", "e", "n", "t", "a", "l">>
WSynthesis == <<"S", "y", "n", "t", "h", "e", "s", "i", "s">>
WGeneralProcedures ==
    <<"G", "e", "n", "e", "r", "a", "l", SP, "P", "r", "o", "c", "e", "d", "u",
      "r", "e", "s">>
\* more lines with a keyword than the line-by-line search keeps
ManyLines == Concat([i \in 1..(FallbackCap + 1) |-> method \o <<NL>>])

CorpusPieces ==
    {WExperimental, WSynthesis, WGeneralProcedures, prepared, <<"1">>,
     <<NL>>, <<NL, NL>>}

\* the page texts: a few pieces, or the many lines between two pieces
PageTexts ==
    (SeqsUpTo(CorpusPieces, MaxCorpusPieces) \ {<<>>})
        \cup {<<a, ManyLines, b>> : a, b \in CorpusPieces \cup {<<>>}}

Corpora == {<<>>} \cup {Concat(ps) \o <<NL, NL>> : ps \in PageTexts}

NoExperimental == [experimental_text |-> <<>>, tried |-> <<>>, fallback |-> FALSE]

ExIdle ==
    /\ ex_all_text = <<>>
    /\ ex_pc = "idle"
    /\ ex_out = NoExperimental

ExStart ==
    /\ ex_all_text \in Corpora
    /\ ex_pc = "input"
    /\ ex_out = NoExperimental

ExSearch ==
    /\ ex_pc = "input"
    /\ ex_out' = ExperimentalText(ex_all_text)
    /\ ex_pc' = "done"
    /\ UNCHANGED <<ex_all_text, tmVars, rnVars, imVars, dcVars, mainVars, ppVars>>

ExNext == ExSearch

(***************************************************************************)
(* Per-file orchestrator: process_pdf, one action per stage.  An exception *)
(* raised inside its try block goes to the except branch, which appends    *)
(* the message to result['errors'] and falls through to the return.        *)
(***************************************************************************)
NoStatus == -1
\* the default of --max-pages
DefaultMaxPages == 5
\* sys.exit(main()) when main raises: the interpreter ends with status 1
ExitOnException == 1

\* sum(1 for r in reactions if r.get('images_generated', False))
ImagesCount(rs) ==
    Cardinality({i \in 1..Len(rs) : Get(rs[i], "images_generated", FALSE)})
\* success_count = sum(1 for r in results if r['success'])
SuccessCount(rs) == Cardinality({i \in 1..Len(rs) : rs[i].success})

\* the files the sample runs are given: one that cannot be opened, one of a
\* page with three identifiers
MainPdfs ==
    {[openable |-> FALSE, pages |-> <<>>],
     [openable |-> TRUE, pages |-> <<PgClaim>>]}

\* what the recognition model finds in them
MainFigures ==
    {<<>>,
     <<[page |-> NoPage,
        reactions |-> <<[reactants |-> <<"", "CCO">>, products |-> <<None, "CC=O">>],
                        [reactants |-> <<"CC", "CCO">>, products |-> <<>>]>>]>>,
     <<[page |-> 4,
        reactions |-> <<[reactants |-> <<"CC", "CCO">>, products |-> <<None, "CC=O">>]>>],
       [page |-> NoPage,
        reactions |-> <<[reactants |-> <<"C((">>, products |-> <<None, "CC=O">>]>>]>>}

NoTextInfo == NoInfo

\* except Exception as e: result['errors'].append(str(e))
Except(res, message) == [res EXCEPT !.errors = Append(@, message)]

PpIdle ==
    /\ pp_pc = "idle"
    /\ pp_stages = <<>>
    /\ pp_result = [pdf_file |-> 0, success |-> FALSE, errors |-> <<>>]
    /\ pp_text_info = NoTextInfo
    /\ pp_reactions = <<>>

\* main calls process_pdf for the next file; the output folder is made and
\* the result dictionary created
PpEnter ==
    /\ pc = "loop"
    /\ pp_pc = "idle"
    /\ Len(results) < Len(pdf_files)
    /\ calls' = calls + 1
    /\ pp_result' = [pdf_file |-> pdf_files[Len(results) + 1],
                  success |-> FALSE, errors |-> <<>>]
    /\ pp_stages' = <<>>
    /\ pp_pc' = "text"
    /\ UNCHANGED <<pp_text_info, pp_reactions, args, config, pc, pdf_files, results,
                   report, report_writes, status, stage_log, tmVars, rnVars, imVars,
                   dcVars, exVars>>

\* pdf_output_dir.mkdir raises: it stands before the try block, so the
\* exception leaves process_pdf and, uncaught in main, ends the run
PpMkdirRaises ==
    /\ pc = "loop"
    /\ pp_pc = "idle"
    /\ Len(results) < Len(pdf_files)
    /\ calls' = calls + 1
    /\ pc' = "crashed"
    /\ status' = ExitOnException
    /\ UNCHANGED <<ppVars, args, config, pdf_files, results, report,
                   report_writes, stage_log, tmVars, rnVars, imVars,
                   dcVars, exVars>>

\* 1. extract_text_info, which catches what it raises after its imports
PpText ==
    /\ pp_pc = "text"
    /\ \E pdf \in MainPdfs :
          \E first5 \in FirstFive(CompoundSet(pdf, args.max_pages)) :
             LET info == extract_text_info(pdf, args.max_pages, first5)
             IN  /\ pp_text_info' = info
                 /\ pp_stages' = Append(pp_stages,
                        <<"text", IF info.error THEN "caught" ELSE "done">>)
                 /\ pp_result' = SetKey(pp_result, "text_info",
                                     [compounds_found |-> Len(info.compounds)])
    /\ pp_pc' = "reactions"
    /\ UNCHANGED <<pp_reactions, mainVars, tmVars, rnVars, imVars, dcVars, exVars>>

\* import pdfplumber stands before the try block of extract_text_info: when
\* it fails the exception reaches the except branch of process_pdf
PpTextImportRaises ==
    /\ pp_pc = "text"
    /\ pp_stages' = Append(pp_stages, <<"text", "escaped">>)
    /\ pp_result' = Except(pp_result, "No module named 'pdfplumber'")
    /\ pp_pc' = "return"
    /\ UNCHANGED <<pp_text_info, pp_reactions, mainVars, tmVars, rnVars, imVars, dcVars,
                   exVars>>

\* 2. extract_reactions_with_openchemie, which catches whatever it raises
PpReactions ==
    /\ pp_pc = "reactions"
    /\ \E raised \in BOOLEAN, figure_results \in MainFigures :
          LET rs == extract_reactions_with_openchemie(raised, figure_results)
          IN  /\ pp_reactions' = rs
              /\ pp_stages' = Append(pp_stages,
                     <<"reactions", IF raised THEN "caught" ELSE "done">>)
              /\ pp_result' = SetKey(pp_result, "reactions_extracted", Len(rs))
    /\ pp_pc' = "images"
    /\ UNCHANGED <<pp_text_info, mainVars, tmVars, rnVars, imVars, dcVars, exVars>>

\* 3. generate_reaction_images, when there are reactions and images are wanted
PpImages ==
    /\ pp_pc = "images"
    /\ pp_reactions # <<>> /\ ~args.no_images
    /\ \E rdkit \in BOOLEAN, mkdir_ok \in BOOLEAN,
          fails \in [1..Len(pp_reactions) -> {"ok", "product_save"}] :
          LET res == generate_reaction_images(pp_reactions, rdkit, mkdir_ok, fails)
          IN  IF res.raised
              THEN /\ pp_result' = Except(pp_result, "mkdir reaction_images")
                   /\ pp_stages' = Append(pp_stages, <<"images", "escaped">>)
                   /\ pp_pc' = "return"
                   /\ UNCHANGED pp_reactions
              ELSE /\ pp_reactions' = res.reactions
                   /\ pp_stages' = Append(pp_stages,
                          <<"images", IF rdkit THEN "done" ELSE "caught">>)
                   /\ pp_result' = SetKey(pp_result, "images_generated",
                                       ImagesCount(res.reactions))
                   /\ pp_pc' = "document"
    /\ UNCHANGED <<pp_text_info, mainVars, tmVars, rnVars, imVars, dcVars, exVars>>

PpNoImages ==
    /\ pp_pc = "images"
    /\ ~(pp_reactions # <<>> /\ ~args.no_images)
    /\ pp_pc' = "document"
    /\ UNCHANGED <<pp_stages, pp_result, pp_text_info, pp_reactions, mainVars,
                   tmVars, rnVars, imVars, dcVars, exVars>>

\* 4. create_word_document: "saved" (returns True), "no_docx" (python-docx is
\* missing, returns False) or "raises" (the template, the building of the
\* document or doc.save raises)
PpDocument ==
    /\ pp_pc = "document"
    /\ \E outcome \in {"saved", "no_docx", "raises"} :
          CASE outcome = "saved" ->
                 /\ pp_result' = SetKey(SetKey(pp_result, "output_doc",
                                                   pp_result.pdf_file),
                                        "success", TRUE)
                 /\ pp_stages' = Append(pp_stages, <<"document", "done">>)
                 /\ pp_pc' = "raw"
            [] outcome = "no_docx" ->
                 /\ pp_result' = Except(pp_result, "create_word_document failed")
                 /\ pp_stages' = Append(pp_stages, <<"document", "caught">>)
                 /\ pp_pc' = "raw"
            [] outcome = "raises" ->
                 /\ pp_result' = Except(pp_result, "doc.save")
                 /\ pp_stages' = Append(pp_stages, <<"document", "escaped">>)
                 /\ pp_pc' = "return"
    /\ UNCHANGED <<pp_text_info, pp_reactions, mainVars, tmVars, rnVars, imVars, dcVars,
                   exVars>>

\* 5. the raw-data dump, when config['save_raw_data'] is set
PpRawData ==
    /\ pp_pc = "raw"
    /\ config.save_raw_data
    /\ \E written \in BOOLEAN :
          /\ pp_result' = IF written
                          THEN SetKey(pp_result, "raw_data_file", pp_result.pdf_file)
                          ELSE Except(pp_result, "json.dump")
          /\ pp_stages' = Append(pp_stages,
                 <<"raw", IF written THEN "done" ELSE "escaped">>)
    /\ pp_pc' = "return"
    /\ UNCHANGED <<pp_text_info, pp_reactions, mainVars, tmVars, rnVars, imVars, dcVars,
                   exVars>>

PpNoRawData ==
    /\ pp_pc = "raw"
    /\ ~config.save_raw_data
    /\ pp_pc' = "return"
    /\ UNCHANGED <<pp_stages, pp_result, pp_text_info, pp_reactions, mainVars,
                   tmVars, rnVars, imVars, dcVars, exVars>>

\* return result, and results.append(result) in main
PpReturn ==
    /\ pp_pc = "return"
    /\ results' = Append(results, pp_result)
    /\ stage_log' = Append(stage_log, pp_stages)
    /\ pp_pc' = "idle"
    /\ pp_text_info' = NoTextInfo
    /\ pp_reactions' = <<>>
    /\ UNCHANGED <<pp_stages, pp_result, args, config, pc, pdf_files, report,
                   report_writes, status, calls, tmVars, rnVars, imVars,
                   dcVars, exVars>>

process_pdf ==
    \/ PpEnter \/ PpMkdirRaises
    \/ PpText \/ PpTextImportRaises
    \/ PpReactions
    \/ PpImages \/ PpNoImages
    \/ PpDocument
    \/ PpRawData \/ PpNoRawData
    \/ PpReturn

(***************************************************************************)
(* Batch orchestrator: main.                                               *)
(***************************************************************************)
MaxFiles == 2

MainIdle ==
    /\ args = [no_images |-> FALSE, max_pages |-> 0]
    /\ config = [save_raw_data |-> FALSE]
    /\ pc = "idle"
    /\ pdf_files = <<>>
    /\ results = <<>>
    /\ report = None
    /\ report_writes = 0
    /\ status = NoStatus
    /\ calls = 0
    /\ stage_log = <<>>

\* the arguments are parsed, the configuration loaded, the output root made
MainStart ==
    /\ args \in [no_images : BOOLEAN, max_pages : {DefaultMaxPages}]
    /\ config \in [save_raw_data : BOOLEAN]
    /\ pc = "start"
    /\ pdf_files = <<>>
    /\ results = <<>>
    /\ report = None
    /\ report_writes = 0
    /\ status = NoStatus
    /\ calls = 0
    /\ stage_log = <<>>

\* pdf_files = find_pdf_files(...); if not pdf_files: return 1
FindPdfFiles ==
    /\ pc = "start"
    /\ \E n \in 0..MaxFiles :
          /\ pdf_files' = [i \in 1..n |-> i]
          /\ IF n = 0
             THEN pc' = "exit" /\ status' = 1
             ELSE pc' = "loop" /\ UNCHANGED status
    /\ UNCHANGED <<args, config, results, report, report_writes, calls, stage_log,
                   ppVars, tmVars, rnVars, imVars, dcVars, exVars>>

\* after the loop: success_count is computed and the report written
WriteReport ==
    /\ pc = "loop"
    /\ pp_pc = "idle"
    /\ Len(results) = Len(pdf_files)
    /\ report' = [results |-> results]
    /\ report_writes' = report_writes + 1
    /\ pc' = "summary"
    /\ UNCHANGED <<args, config, pdf_files, results, status, calls, stage_log,
                   ppVars, tmVars, rnVars, imVars, dcVars, exVars>>

\* the summary is logged;  return 0 if success_count > 0 else 1
ReturnStatus ==
    /\ pc = "summary"
    /\ status' = IF SuccessCount(results) > 0 THEN 0 ELSE 1
    /\ pc' = "exit"
    /\ UNCHANGED <<args, config, pdf_files, results, report, report_writes,
                   calls, stage_log, ppVars, tmVars, rnVars, imVars,
                   dcVars, exVars>>

Next == FindPdfFiles \/ process_pdf \/ WriteReport \/ ReturnStatus

(***************************************************************************)
(* Specifications.                                                         *)
(***************************************************************************)
Init == MainStart /\ PpIdle /\ TmIdle /\ RnIdle /\ ImIdle /\ DcIdle /\ ExIdle
Spec == Init /\ [][Next]_vars

InitText == TmStart /\ RnIdle /\ ImIdle /\ MainIdle /\ PpIdle /\ DcIdle /\ ExIdle
SpecText == InitText /\ [][TmNext]_vars

InitNorm == RnStart /\ TmIdle /\ ImIdle /\ MainIdle /\ PpIdle /\ DcIdle /\ ExIdle
SpecNorm == InitNorm /\ [][RnNext]_vars

InitImg == ImStart /\ TmIdle /\ RnIdle /\ MainIdle /\ PpIdle /\ DcIdle /\ ExIdle
SpecImg == InitImg /\ [][ImNext]_vars

InitDoc == DcStart /\ TmIdle /\ RnIdle /\ ImIdle /\ MainIdle /\ PpIdle /\ ExIdle
SpecDoc == InitDoc /\ [][DcNext]_vars

InitExp == ExStart /\ TmIdle /\ RnIdle /\ ImIdle /\ DcIdle /\ MainIdle /\ PpIdle
SpecExp == InitExp /\ [][ExNext]_vars

(***************************************************************************)
(* Properties of the text-mining extractor (under SpecText).               *)
(***************************************************************************)
TmRan == tm_pc \in {"once", "twice"}

Id12 == <<"1", "2">>
IdA1 == <<"A", "1">>
Id3 == <<"3">>

\* C6: the compounds field lists the purely numeric identifiers before the
\* alphabetic ones; for the identifier set {"12","A1","3"} it is
\* ["3","12","A1"].
C6_NumericBeforeAlphabetic ==
    TmRan =>
        /\ \A i, j \in 1..Len(tm_out1.compounds) :
               (i < j /\ isnumeric(tm_out1.compounds[j]))
                   => isnumeric(tm_out1.compounds[i])
        /\ CompoundSet(tm_pdf, tm_max_pages) = {Id12, IdA1, Id3}
               => tm_out1.compounds = <<Id3, Id12, IdA1>>

\* C9, as claimed: every ExtractedTextInfo, from the success path or from the
\* error path, has pages_processed <= total_pages and pages_processed <= the
\* page budget.
C9_PagesWithinBudget ==
    TmRan =>
        /\ tm_out1.pages_processed <= tm_out1.total_pages
        /\ tm_out1.pages_processed <= tm_max_pages

\* C9, amended: pages_processed <= total_pages on both paths;
\* pages_processed <= the page budget on the success path, and on the error
\* path when the budget is not negative.
C9_PagesWithinBudgetAmended ==
    TmRan =>
        /\ tm_out1.pages_processed <= tm_out1.total_pages
        /\ (~tm_out1.error \/ tm_max_pages >= 0)
               => tm_out1.pages_processed <= tm_max_pages

\* the budget cuts the pages read: a file of more pages than the budget
C9_Witness ==
    /\ TmRan
    /\ ~tm_out1.error
    /\ tm_out1.pages_processed = tm_max_pages
    /\ tm_out1.pages_processed > 0
    /\ tm_out1.pages_processed < tm_out1.total_pages

\* C10: two runs of the extractor on the same pages and budget give the same
\* ExtractedTextInfo in every field, compound_descriptions included.
C10_Idempotent == tm_pc = "twice" => tm_out1 = tm_out2

(***************************************************************************)
(* Properties of the reaction normalizer (under SpecNorm).                 *)
(***************************************************************************)
HasIdentifier(cands) ==
    /\ cands # None
    /\ \E i \in 1..Len(cands) : cands[i] # None /\ cands[i] # ""

FirstIdentifier(cands) ==
    cands[SetMin({i \in 1..Len(cands) : cands[i] # None /\ cands[i] # ""})]

\* the raw entries the claim lets through
Accepted(rxn) == HasIdentifier(rxn.reactants) /\ HasIdentifier(rxn.products)

AcceptedEntries == SelectSeq(Flat(rn_figures), Accepted)

\* C7: a raw entry yields a ReactionRecord if and only if it has a reactant
\* candidate and a product candidate with a non-empty structure identifier
\* (the first such of each is used); the records carry reaction_id 1..n in
\* acceptance order, so dropped entries leave no gaps.
C7_NormalizedDense ==
    rn_pc = "extracted" =>
        /\ Len(rn_reactions) = Len(AcceptedEntries)
        /\ \A k \in 1..Len(rn_reactions) :
              /\ rn_reactions[k].reaction_id = k
              /\ rn_reactions[k].raw_data = AcceptedEntries[k]
              /\ rn_reactions[k].reactant_smiles =
                     FirstIdentifier(AcceptedEntries[k].reactants)
              /\ rn_reactions[k].product_smiles =
                     FirstIdentifier(AcceptedEntries[k].products)

\* an entry is dropped between two accepted ones
C7_Witness ==
    /\ rn_pc = "extracted"
    /\ Len(Flat(rn_figures)) = 3
    /\ Accepted(Flat(rn_figures)[1])
    /\ ~Accepted(Flat(rn_figures)[2])
    /\ Accepted(Flat(rn_figures)[3])
    /\ Len(rn_reactions) = 2
    /\ rn_reactions[2].reaction_id = 2

(***************************************************************************)
(* Properties of the image stage (under SpecImg).                          *)
(***************************************************************************)
\* the record's two identifiers both parsed, and both images were rendered
\* and saved
BothRendered(i) ==
    /\ im_in[i].reactant_smiles \in ValidSmiles
    /\ im_in[i].product_smiles \in ValidSmiles
    /\ im_fails[i] = "ok"
    /\ {ImagePath(im_in[i].reaction_id, "reactant"),
        ImagePath(im_in[i].reaction_id, "product")} \subseteq im_files

CoreKeys == {"reaction_id", "page", "reactant_smiles", "product_smiles", "raw_data"}

Ended == pc \in {"exit", "crashed"}
SomeSuccess == \E i \in 1..Len(results) : results[i].success

\* how stage `stage` ended for the file of results[i], None when it was not
\* attempted
StageEnd(i, stage) ==
    IF \E k \in 1..Len(stage_log[i]) : stage_log[i][k][1] = stage
    THEN stage_log[i][CHOOSE k \in 1..Len(stage_log[i]) :
                          stage_log[i][k][1] = stage][2]
    ELSE None

\* every stage attempted for the file ended without an exception
FullySucceeded(i) ==
    /\ \A k \in 1..Len(stage_log[i]) : stage_log[i][k][2] = "done"
    /\ StageEnd(i, "document") = "done"

\* C1: a file whose recognition stage raises gets a ProcessResult with
\* success = false and a non-empty errors list; a file that succeeds fully
\* has success = true; the completion status is 0 whenever a file succeeded.
C1_PartialFailureIsolation ==
    /\ \A i \in 1..Len(results) :
          /\ StageEnd(i, "reactions") = "caught" =>
                ~results[i].success /\ results[i].errors # <<>>
          /\ FullySucceeded(i) => results[i].success
    /\ (Ended /\ SomeSuccess) => status = 0

\* C2: no exception escapes process_pdf to the batch level, whatever fails
\* (the creation of the output folder included): every call returns a
\* ProcessResult, and the result list has one entry per discovered input.
C2_NoExceptionEscapes ==
    /\ pc # "crashed"
    /\ pp_pc = "idle" => Len(results) = calls
    /\ Ended => Len(results) = Len(pdf_files)

\* C3: in every finalized ProcessResult, success = true implies that errors
\* is empty, also when the raw-data dump fails after the document is written.
C3_SuccessHasNoErrors ==
    \A i \in 1..Len(results) : results[i].success => results[i].errors = <<>>

\* C4: the completion status is 0 if and only if some ProcessResult has
\* success = true, and 1 otherwise; with no input the run returns 1 without
\* calling process_pdf and without a report.
C4_CompletionStatus ==
    Ended =>
        /\ status \in {0, 1}
        /\ status = 0 <=> SomeSuccess
        /\ pdf_files = <<>> =>
              status = 1 /\ calls = 0 /\ report_writes = 0 /\ results = <<>>

\* C5: in every run that discovers an input the report is written exactly
\* once, after process_pdf has returned for every input, with the
\* ProcessResults in processing order; no file is processed after it.
C5_ReportWrittenOnce ==
    /\ report_writes <= 1
    /\ report_writes = 1 =>
          /\ pp_pc = "idle"
          /\ calls = Len(pdf_files)
          /\ Len(results) = Len(pdf_files)
          /\ report.results = results
          /\ \A i \in 1..Len(results) : results[i].pdf_file = pdf_files[i]
    /\ (Ended /\ pdf_files # <<>>) => report_writes = 1

\* Lemmas: what C4 and C5 say holds of every run in which main returns; the
\* runs that break them are those an exception of process_pdf ends.
StatusWhenMainReturns ==
    pc = "exit" =>
        /\ status \in {0, 1}
        /\ status = 0 <=> SomeSuccess
        /\ pdf_files = <<>> =>
              status = 1 /\ calls = 0 /\ report_writes = 0 /\ results = <<>>

ReportWhenMainReturns ==
    /\ report_writes <= 1
    /\ report_writes = 1 =>
          /\ pp_pc = "idle"
          /\ calls = Len(pdf_files)
          /\ report.results = results
    /\ (pc = "exit" /\ pdf_files # <<>>) => report_writes = 1

(***************************************************************************)
(* Properties of the document assembler (under SpecDoc).                   *)
(***************************************************************************)
\* the source-language section was emitted into a saved document
SourceEmitted == dc_pc = "saved" /\ dc_language \in {"en", "both"}

MarkerParagraph == SubSeq(TruncationMarker, 3, Len(TruncationMarker))

\* a text rendered line by line: one paragraph for each line that is not blank
Rendered(text) == Paragraphs(split(text))

\* C11: in the source-language section an experimental text longer than 5000
\* characters is rendered as exactly its first 5000 characters followed by
\* the truncation marker; a text of at most 5000 characters is rendered in
\* full with no marker (an empty one as the "not extracted" placeholder).
C11_Truncation ==
    SourceEmitted =>
        LET text == dc_pdf_info.experimental_text
        IN  IF Len(text) > 5000
            THEN dc_doc = Rendered(SubSeq(text, 1, 5000)) \o <<MarkerParagraph>>
            ELSE /\ \A i \in 1..Len(dc_doc) : dc_doc[i] # MarkerParagraph
                 /\ dc_doc = IF text = <<>> THEN <<NotExtracted>> ELSE Rendered(text)

\* a text of 7500 characters in two lines, cut inside its second line
C11_Witness ==
    /\ SourceEmitted
    /\ Len(dc_pdf_info.experimental_text) > 5000
    /\ Len(dc_doc) = 3
    /\ Len(dc_doc[1]) + 1 + Len(dc_doc[2]) = 5000
    /\ dc_doc[3] = MarkerParagraph

(***************************************************************************)
(* Properties of the staging of process_pdf (under Spec).                  *)
(***************************************************************************)
StageOrder == <<"text", "reactions", "images", "document", "raw">>

Rank(stage) == CHOOSE k \in 1..Len(StageOrder) : StageOrder[k] = stage

Attempted(stages, stage) == \E i \in 1..Len(stages) : stages[i][1] = stage

\* a stage before document assembly ended in a failure, caught by the stage
\* itself or not
EarlyStageFailed(stages) ==
    \E i \in 1..Len(stages) :
        /\ stages[i][1] \in {"text", "reactions", "images"}
        /\ stages[i][2] # "done"

\* C12: when process_pdf is about to return, the stages attempted for the
\* file are in the order text-mining, reaction extraction, image rendering,
\* document assembly, the image stage among them only when reactions exist
\* and images are enabled; and a failure of text-mining, of reaction
\* extraction or of the image stage has not kept the later stages, document
\* assembly in particular, from being attempted.
C12_BestEffortStaging ==
    pp_pc = "return" =>
        /\ \A i, j \in 1..Len(pp_stages) :
               i < j => Rank(pp_stages[i][1]) < Rank(pp_stages[j][1])
        /\ Attempted(pp_stages, "text")
        /\ Attempted(pp_stages, "images") => (pp_reactions # <<>> /\ ~args.no_images)
        /\ EarlyStageFailed(pp_stages) =>
               /\ Attempted(pp_stages, "reactions")
               /\ Attempted(pp_stages, "document")

\* the failures a stage catches itself do leave the later stages their turn
CaughtFailuresContinue ==
    (pp_pc = "return" /\ \A i \in 1..Len(pp_stages) :
                             pp_stages[i][1] \in {"text", "reactions", "images"}
                                 => pp_stages[i][2] # "escaped")
        => Attempted(pp_stages, "reactions") /\ Attempted(pp_stages, "document")

(***************************************************************************)
(* Properties of the experimental-section cascade (under SpecExp).         *)
(***************************************************************************)
\* the heading patterns that match the text
Matching == {p \in 1..Len(exp_patterns) : Matches(p, ex_all_text)}

\* the lines of the text that hold a keyword, in the order of the text
KeywordLines == SynthLines(split(ex_all_text))

FirstKeywordLines == SubSeq(KeywordLines, 1, Min(50, Len(KeywordLines)))

\* C13: the heading patterns are tried in their fixed order and the first one
\* that matches determines experimental_text, with no later pattern tried;
\* the keyword fallback contributes only when no heading pattern matched, and
\* it then yields at most the first 50 keyword-matching lines in the order
\* of the text.
C13_Cascade ==
    ex_pc = "done" =>
        IF Matching # {}
        THEN /\ ex_out.tried = [k \in 1..SetMin(Matching) |-> k]
             /\ ex_out.experimental_text = strip(Group1(SetMin(Matching), ex_all_text))
        ELSE /\ ex_out.tried = [k \in 1..Len(exp_patterns) |-> k]
             /\ ex_out.experimental_text = join(FirstKeywordLines)

\* the patterns are tried in order, up to the first that matches
TriedInOrder ==
    ex_pc = "done" =>
        ex_out.tried = [k \in 1..(IF Matching # {} THEN SetMin(Matching)
                                  ELSE Len(exp_patterns)) |-> k]

\* the first matching heading determines the text whenever it captures
\* anything but blanks
HeadingWinsUnlessBlank ==
    (ex_pc = "done" /\ Matching # {}
        /\ strip(Group1(SetMin(Matching), ex_all_text)) # <<>>)
        => /\ ex_out.experimental_text = strip(Group1(SetMin(Matching), ex_all_text))
           /\ ~ex_out.fallback

\* whenever the line-by-line search runs, the text is the first 50 lines
\* with a keyword, at most
FallbackKeepsFirstLines ==
    (ex_pc = "done" /\ ex_out.fallback)
        => /\ ex_out.experimental_text = join(FirstKeywordLines)
           /\ Len(split(ex_out.experimental_text)) <= 50

====
